---- MODULE Spec2Model ----
(***************************************************************************)
(* Model of the swar package (SIMD within a register on uint64 words).     *)
(*                                                                         *)
(* A uint64 is a tuple of 8 bytes, least-significant byte first: w[1] is   *)
(* bits 0..7 and w[8] is bits 56..63.  Go's uint64 operators are modelled  *)
(* on that representation with their full 64-bit meaning: + - and * carry  *)
(* and borrow across the byte boundaries and wrap modulo 2^64, shifts move *)
(* bits across the byte boundaries.  Whether a carry or borrow crosses a   *)
(* lane is therefore decided by the formulas of the package, not by the    *)
(* representation.                                                         *)
(***************************************************************************)
EXTENDS Integers, Sequences, FiniteSets, TLC

\* ------------------------------------------------------------------------
\* Bounds of the model
\* ------------------------------------------------------------------------

\* Byte values tried in the varying lanes lie within Near of 0, 128 and 255.
Near == 1

\* Longest byte buffer handed to BytesToLanes.
MaxBufLen == 17

\* The largest number of loop iterations run by an anomaly detector.
MaxSteps == 90

\* ------------------------------------------------------------------------
\* Go's uint64 operators
\* ------------------------------------------------------------------------

Byte == 0..255

LaneIdx == 1..8

RECURSIVE BitAnd(_, _, _)
\* x & y on the low n bits of two naturals.
BitAnd(x, y, n) ==
    IF n = 0 THEN 0
    ELSE (x % 2) * (y % 2) + 2 * BitAnd(x \div 2, y \div 2, n - 1)

\* The & of two bytes, tabulated.
AndTab == [x \in Byte |-> [y \in Byte |-> BitAnd(x, y, 8)]]

And8(x, y) == AndTab[x][y]

Or8(x, y) == x + y - And8(x, y)

Xor8(x, y) == x + y - 2 * And8(x, y)

\* a & b
And64(a, b) ==
    <<And8(a[1], b[1]), And8(a[2], b[2]), And8(a[3], b[3]), And8(a[4], b[4]),
      And8(a[5], b[5]), And8(a[6], b[6]), And8(a[7], b[7]), And8(a[8], b[8])>>

\* a | b
Or64(a, b) ==
    <<Or8(a[1], b[1]), Or8(a[2], b[2]), Or8(a[3], b[3]), Or8(a[4], b[4]),
      Or8(a[5], b[5]), Or8(a[6], b[6]), Or8(a[7], b[7]), Or8(a[8], b[8])>>

\* a ^ b
Xor64(a, b) ==
    <<Xor8(a[1], b[1]), Xor8(a[2], b[2]), Xor8(a[3], b[3]), Xor8(a[4], b[4]),
      Xor8(a[5], b[5]), Xor8(a[6], b[6]), Xor8(a[7], b[7]), Xor8(a[8], b[8])>>

\* ^a
Not64(a) ==
    <<255 - a[1], 255 - a[2], 255 - a[3], 255 - a[4],
      255 - a[5], 255 - a[6], 255 - a[7], 255 - a[8]>>

\* a &^ b
AndNot64(a, b) == And64(a, Not64(b))

RECURSIVE Carry(_, _, _)
\* The base-256 digits s[k..8] with the carry c coming in, reduced to bytes;
\* the carry out of the top byte is dropped (arithmetic modulo 2^64).
Carry(s, k, c) ==
    IF k > 8 THEN <<>>
    ELSE LET t == s[k] + c
         IN  <<t % 256>> \o Carry(s, k + 1, t \div 256)

\* a + b
Add64(a, b) ==
    Carry(<<a[1] + b[1], a[2] + b[2], a[3] + b[3], a[4] + b[4],
            a[5] + b[5], a[6] + b[6], a[7] + b[7], a[8] + b[8]>>, 1, 0)

\* a - b, which is a + ^b + 1 modulo 2^64
Sub64(a, b) ==
    Carry(<<a[1] + 255 - b[1], a[2] + 255 - b[2], a[3] + 255 - b[3],
            a[4] + 255 - b[4], a[5] + 255 - b[5], a[6] + 255 - b[6],
            a[7] + 255 - b[7], a[8] + 255 - b[8]>>, 1, 1)

RECURSIVE MulDigit(_, _, _, _)
\* The sum of a[i] * b[k + 1 - i] for i in i..k: digit k of the product.
MulDigit(a, b, k, i) ==
    IF i > k THEN 0 ELSE a[i] * b[k + 1 - i] + MulDigit(a, b, k, i + 1)

\* a * b
Mul64(a, b) ==
    Carry(<<MulDigit(a, b, 1, 1), MulDigit(a, b, 2, 1), MulDigit(a, b, 3, 1),
            MulDigit(a, b, 4, 1), MulDigit(a, b, 5, 1), MulDigit(a, b, 6, 1),
            MulDigit(a, b, 7, 1), MulDigit(a, b, 8, 1)>>, 1, 0)

RECURSIVE Pow2(_)
Pow2(n) == IF n = 0 THEN 1 ELSE 2 * Pow2(n - 1)

\* Byte k of w, zero outside the word.
ByteAt(w, k) == IF k \in LaneIdx THEN w[k] ELSE 0

\* Byte k of w >> n
ShrByte(w, n, k) ==
    (ByteAt(w, k + (n \div 8)) \div Pow2(n % 8)
       + ByteAt(w, k + (n \div 8) + 1) * Pow2(8 - (n % 8))) % 256

\* w >> n
Shr64(w, n) ==
    <<ShrByte(w, n, 1), ShrByte(w, n, 2), ShrByte(w, n, 3), ShrByte(w, n, 4),
      ShrByte(w, n, 5), ShrByte(w, n, 6), ShrByte(w, n, 7), ShrByte(w, n, 8)>>

\* Byte k of w << n
ShlByte(w, n, k) ==
    (ByteAt(w, k - (n \div 8)) * Pow2(n % 8)
       + ByteAt(w, k - (n \div 8) - 1) \div Pow2(8 - (n % 8))) % 256

\* w << n
Shl64(w, n) ==
    <<ShlByte(w, n, 1), ShlByte(w, n, 2), ShlByte(w, n, 3), ShlByte(w, n, 4),
      ShlByte(w, n, 5), ShlByte(w, n, 6), ShlByte(w, n, 7), ShlByte(w, n, 8)>>

\* uint64(c) for a byte c, and small literals such as 0xFF
U64(c) == <<c, 0, 0, 0, 0, 0, 0, 0>>

\* byte(w): the low 8 bits
ByteOf(w) == w[1]

\* A literal written as in the source, most-significant byte first.
Lit(b7, b6, b5, b4, b3, b2, b1, b0) == <<b0, b1, b2, b3, b4, b5, b6, b7>>

\* The same byte in all 8 lanes (a literal such as 0x7F7F_7F7F_7F7F_7F7F).
Rep(c) == <<c, c, c, c, c, c, c, c>>

\* ------------------------------------------------------------------------
\* Package constants
\* ------------------------------------------------------------------------

\* 0x8080_8080_8080_8080
HighBits == Rep(128)

\* 0x0101_0101_0101_0101
LowBits == Rep(1)

\* 0x0102_0408_1020_4080
packMask == Lit(1, 2, 4, 8, 16, 32, 64, 128)

\* ------------------------------------------------------------------------
\* logic.go
\* ------------------------------------------------------------------------

\* HighBitWhereLess without the guard bit on the minuend: borrows cross lanes.
HighBitWhereLessNoGuard(v, cm) ==
    LET d    == Sub64(v, AndNot64(cm, HighBits))
        sel  == And64(Or64(And64(v, Xor64(v, cm)), AndNot64(d, Xor64(v, cm))),
                      HighBits)
        hbit == Xor64(sel, HighBits)
    IN  And64(hbit, HighBits)

HighBitWhereLess(v, cm) ==
    LET d    == Sub64(Or64(v, HighBits), AndNot64(cm, HighBits))
        sel  == And64(Or64(And64(v, Xor64(v, cm)), AndNot64(d, Xor64(v, cm))),
                      HighBits)
        hbit == Xor64(sel, HighBits)
    IN  And64(hbit, HighBits)

\* HighBitWhereGreater with the operand roles of HighBitWhereLess kept.
HighBitWhereGreaterUnswapped(v, cm) ==
    LET d    == Sub64(Or64(v, HighBits), AndNot64(cm, HighBits))
        sel  == And64(Or64(And64(v, Xor64(v, cm)), AndNot64(d, Xor64(v, cm))),
                      HighBits)
        hbit == Xor64(sel, HighBits)
    IN  And64(hbit, HighBits)

HighBitWhereGreater(v, cm) ==
    LET d    == Sub64(Or64(cm, HighBits), AndNot64(v, HighBits))
        sel  == And64(Or64(And64(cm, Xor64(cm, v)), AndNot64(d, Xor64(cm, v))),
                      HighBits)
        hbit == Xor64(sel, HighBits)
    IN  And64(hbit, HighBits)

\* HighBitWhereEqual without clearing the high bits before the addition: the
\* carry of a lane reaches the next lane.
HighBitWhereEqualNoMask(v, cm) ==
    LET x  == Xor64(v, cm)
        y  == Or64(Add64(x, Rep(127)), x)
        hi == And64(Not64(y), HighBits)
    IN  And64(hi, HighBits)

HighBitWhereEqual(v, cm) ==
    LET x  == Xor64(v, cm)
        y  == Or64(Add64(And64(x, Rep(127)), Rep(127)), x)
        hi == And64(Not64(y), HighBits)
    IN  And64(hi, HighBits)

\* ------------------------------------------------------------------------
\* math.go
\* ------------------------------------------------------------------------

\* 0x7F7F_7F7F_7F7F_7F7F
laneNotHigh == Rep(127)

\* SubtractBytesWithWrapping as the plain 64-bit difference: borrows cross
\* lanes.
SubtractBytesWithWrappingPlain(x, y) == Sub64(x, y)

SubtractBytesWithWrapping(x, y) ==
    Xor64(Sub64(Or64(x, HighBits), AndNot64(y, HighBits)),
          And64(Xor64(x, Not64(y)), HighBits))

\* SubtractBytesWithMinimum with the borrow taken from ^a & b alone.
SubtractBytesWithMinimumShortBorrow(x, y) ==
    LET diff == Xor64(Sub64(Or64(x, HighBits), AndNot64(y, HighBits)),
                      And64(Xor64(x, Not64(y)), HighBits))
        bo   == And64(And64(Not64(x), y), HighBits)
    IN  AndNot64(diff, Mul64(Shr64(bo, 7), U64(255)))

SubtractBytesWithMinimum(x, y) ==
    LET diff == Xor64(Sub64(Or64(x, HighBits), AndNot64(y, HighBits)),
                      And64(Xor64(x, Not64(y)), HighBits))
        bo   == And64(Or64(And64(Not64(x), y), And64(Or64(Not64(x), y), diff)),
                      HighBits)
    IN  AndNot64(diff, Mul64(Shr64(bo, 7), U64(255)))

\* AddBytesWithWrapping as the plain 64-bit sum: carries cross lanes.
AddBytesWithWrappingPlain(x, y) == Add64(x, y)

AddBytesWithWrapping(x, y) ==
    LET sum == Add64(And64(x, laneNotHigh), And64(y, laneNotHigh))
    IN  Xor64(sum, And64(Xor64(x, y), HighBits))

\* AddBytesWithMaximum with the carry taken from a & b alone.
AddBytesWithMaximumShortCarry(x, y) ==
    LET preSum == Add64(And64(x, laneNotHigh), And64(y, laneNotHigh))
        sum    == Xor64(preSum, And64(Xor64(x, y), HighBits))
        carry  == And64(And64(x, y), HighBits)
    IN  Or64(sum, Mul64(Shr64(carry, 7), U64(255)))

AddBytesWithMaximum(x, y) ==
    LET preSum == Add64(And64(x, laneNotHigh), And64(y, laneNotHigh))
        sum    == Xor64(preSum, And64(Xor64(x, y), HighBits))
        carry  == And64(Or64(And64(x, y), And64(Or64(x, y), Not64(sum))),
                        HighBits)
    IN  Or64(sum, Mul64(Shr64(carry, 7), U64(255)))

\* AbsoluteDifferenceBetweenBytes with minuend and subtrahend exchanged.
AbsoluteDifferenceBetweenBytesSwapped(x, y) ==
    LET d      == Sub64(x, y)
        borrow == And64(Or64(And64(Not64(x), y), And64(Or64(Not64(x), y), d)),
                        HighBits)
        m      == Mul64(Shr64(borrow, 7), U64(255))
        n      == Or64(And64(x, m), AndNot64(y, m))
        mm     == Or64(AndNot64(x, m), And64(y, m))
    IN  Xor64(Sub64(Or64(n, HighBits), AndNot64(mm, HighBits)),
              And64(Xor64(n, Not64(mm)), HighBits))

AbsoluteDifferenceBetweenBytes(x, y) ==
    LET d      == Sub64(x, y)
        borrow == And64(Or64(And64(Not64(x), y), And64(Or64(Not64(x), y), d)),
                        HighBits)
        m      == Mul64(Shr64(borrow, 7), U64(255))
        n      == Or64(AndNot64(x, m), And64(y, m))
        mm     == Or64(And64(x, m), AndNot64(y, m))
    IN  Xor64(Sub64(Or64(n, HighBits), AndNot64(mm, HighBits)),
              And64(Xor64(n, Not64(mm)), HighBits))

\* SelectSmallerBytes with the borrow taken from ^a & b alone.
SelectSmallerBytesShortBorrow(x, y) ==
    LET borrow == And64(And64(Not64(x), y), HighBits)
        m      == Mul64(Shr64(borrow, 7), U64(255))
    IN  Or64(And64(x, m), AndNot64(y, m))

SelectSmallerBytes(x, y) ==
    LET d      == Sub64(x, y)
        borrow == And64(Or64(And64(Not64(x), y), And64(Or64(Not64(x), y), d)),
                        HighBits)
        m      == Mul64(Shr64(borrow, 7), U64(255))
    IN  Or64(And64(x, m), AndNot64(y, m))

\* SelectLargerBytes with the sense of the mask inverted.
SelectLargerBytesInverted(x, y) ==
    LET d      == Sub64(x, y)
        borrow == And64(Or64(And64(Not64(x), y), And64(Or64(Not64(x), y), d)),
                        HighBits)
        m      == Mul64(Shr64(borrow, 7), U64(255))
    IN  Or64(And64(x, m), AndNot64(y, m))

\* SelectLargerBytes with the mask taken from the sign of each lane of the
\* full-word difference alone.
SelectLargerBytesWordBorrow(x, y) ==
    LET d      == Sub64(x, y)
        borrow == And64(d, HighBits)
        m      == Mul64(Shr64(borrow, 7), U64(255))
    IN  Or64(AndNot64(x, m), And64(y, m))

SelectLargerBytes(x, y) ==
    LET d      == Sub64(x, y)
        borrow == And64(Or64(And64(Not64(x), y), And64(Or64(Not64(x), y), d)),
                        HighBits)
        m      == Mul64(Shr64(borrow, 7), U64(255))
    IN  Or64(AndNot64(x, m), And64(y, m))

\* AverageBytes without the mask 0xFEFE_FEFE_FEFE_FEFE: the low bit of a lane
\* is shifted into the lane below.
AverageBytesNoMask(x, y) ==
    LET common == And64(x, y)
        diff   == Xor64(x, y)
    IN  Add64(common, Shr64(diff, 1))

AverageBytes(x, y) ==
    LET common == And64(x, y)
        diff   == And64(Xor64(x, y), Rep(254))
    IN  Add64(common, Shr64(diff, 1))

\* ------------------------------------------------------------------------
\* utils.go: broadcast and gather
\* ------------------------------------------------------------------------

\* Dupe with a multiplier that has only its low four lanes set.
DupeLowHalf(c) == Mul64(U64(c), Lit(0, 0, 0, 0, 1, 1, 1, 1))

Dupe(c) == Mul64(U64(c), LowBits)

\* ExtractLowBits with the multiplier 0x8040_2010_0804_0201, which gathers the
\* bits in the opposite order.
ExtractLowBitsReversed(v) ==
    ByteOf(Shr64(Mul64(v, Lit(128, 64, 32, 16, 8, 4, 2, 1)), 56))

ExtractLowBits(v) == ByteOf(Shr64(Mul64(v, packMask), 56))

\* ------------------------------------------------------------------------
\* utils.go: the table of set bit positions
\* ------------------------------------------------------------------------

\* The inner loop of the table's constructor from bit i on: i is appended to
\* res[x] when x>>i&1 == 1.
RECURSIVE OnesPositionsLoop(_, _, _)
OnesPositionsLoop(x, i, acc) ==
    IF i >= 8 THEN acc
    ELSE OnesPositionsLoop(x, i + 1,
             IF (x \div Pow2(i)) % 2 = 1 THEN Append(acc, i) ELSE acc)

\* The table entry listed from the highest set bit down.
OnesPositionsOfDescending(x) ==
    LET asc == OnesPositionsLoop(x, 0, <<>>)
    IN  [n \in 1..Len(asc) |-> asc[Len(asc) + 1 - n]]

\* res[x] after the constructor's loop over i.
OnesPositionsOf(x) == OnesPositionsLoop(x, 0, <<>>)

Lookup == [OnesPositions |-> [x \in 0..255 |-> OnesPositionsOf(x)]]

\* ------------------------------------------------------------------------
\* shuffle.go
\* ------------------------------------------------------------------------

\* SelectByLowBit with the roles of the two operands exchanged.
SelectByLowBitSwapped(x, y, m) ==
    LET byteMask == Mul64(m, U64(255))
    IN  Or64(And64(y, byteMask), AndNot64(x, byteMask))

SelectByLowBit(x, y, m) ==
    LET byteMask == Mul64(m, U64(255))
    IN  Or64(And64(x, byteMask), AndNot64(y, byteMask))

\* SwapByteHalves without the two nibble masks.
SwapByteHalvesNoMask(v) == Or64(Shl64(v, 4), Shr64(v, 4))

SwapByteHalves(v) ==
    LET lo == And64(v, Rep(15))
        hi == And64(v, Rep(240))
    IN  Or64(Shl64(lo, 4), Shr64(hi, 4))

\* ReverseEachByte without its last step, the exchange of the nibbles.
ReverseEachByteNoNibbles(v) ==
    LET x1 == Or64(And64(Shr64(v, 1), Rep(85)), Shl64(And64(v, Rep(85)), 1))
    IN  Or64(And64(Shr64(x1, 2), Rep(51)), Shl64(And64(x1, Rep(51)), 2))

ReverseEachByte(v) ==
    LET x1 == Or64(And64(Shr64(v, 1), Rep(85)), Shl64(And64(v, Rep(85)), 1))
        x2 == Or64(And64(Shr64(x1, 2), Rep(51)), Shl64(And64(x1, Rep(51)), 2))
    IN  Or64(And64(Shr64(x2, 4), Rep(15)), Shl64(And64(x2, Rep(15)), 4))

\* CountOnesPerByte without the final mask 0x0F0F_0F0F_0F0F_0F0F.
CountOnesPerByteNoMask(v) ==
    LET m1 == Sub64(v, And64(Shr64(v, 1), Rep(85)))
        m2 == Add64(And64(m1, Rep(51)), And64(Shr64(m1, 2), Rep(51)))
    IN  Add64(m2, Shr64(m2, 4))

CountOnesPerByte(v) ==
    LET m1 == Sub64(v, And64(Shr64(v, 1), Rep(85)))
        m2 == Add64(And64(m1, Rep(51)), And64(Shr64(m1, 2), Rep(51)))
    IN  And64(Add64(m2, Shr64(m2, 4)), Rep(15))

\* ------------------------------------------------------------------------
\* utils.go: the lane codec
\*
\* A []byte is a sequence of bytes; Go index i is index i + 1 here.  The
\* codec reinterprets memory in place, so the value of a lane depends on the
\* byte order of the platform the package is built for.
\* ------------------------------------------------------------------------

ByteOrders == {"little", "big"}

\* The byte at index i of the memory that starts with the buffer bf; the
\* memory behind the buffer holds aft.
MemAt(bf, aft, i) == IF i <= Len(bf) THEN bf[i] ELSE aft

\* The uint64 read from the 8 bytes of memory that follow offset off.
Load64(bf, aft, e, off) ==
    IF e = "little"
    THEN <<MemAt(bf, aft, off + 1), MemAt(bf, aft, off + 2),
           MemAt(bf, aft, off + 3), MemAt(bf, aft, off + 4),
           MemAt(bf, aft, off + 5), MemAt(bf, aft, off + 6),
           MemAt(bf, aft, off + 7), MemAt(bf, aft, off + 8)>>
    ELSE <<MemAt(bf, aft, off + 8), MemAt(bf, aft, off + 7),
           MemAt(bf, aft, off + 6), MemAt(bf, aft, off + 5),
           MemAt(bf, aft, off + 4), MemAt(bf, aft, off + 3),
           MemAt(bf, aft, off + 2), MemAt(bf, aft, off + 1)>>

\* The 8 bytes of memory that hold the uint64 w, in address order.
Store64(w, e) ==
    IF e = "little"
    THEN <<w[1], w[2], w[3], w[4], w[5], w[6], w[7], w[8]>>
    ELSE <<w[8], w[7], w[6], w[5], w[4], w[3], w[2], w[1]>>

\* BytesToLanes with the lane count rounded up: the last lane reaches behind
\* the buffer.
BytesToLanesRoundUp(bf, aft, e) ==
    IF Len(bf) = 0
    THEN [panic |-> TRUE, chunks |-> <<>>, consumed |-> 0]
    ELSE LET countChunks == (Len(bf) + 7) \div 8
         IN  [panic    |-> FALSE,
              chunks   |-> [i \in 1..countChunks |->
                               Load64(bf, aft, e, 8 * (i - 1))],
              consumed |-> countChunks * 8]

\* BytesToLanes(b): &b[0] panics on an empty slice; otherwise the first
\* countChunks * 8 bytes of b seen as countChunks words.
BytesToLanes(bf, aft, e) ==
    IF Len(bf) = 0
    THEN [panic |-> TRUE, chunks |-> <<>>, consumed |-> 0]
    ELSE LET countChunks == Len(bf) \div 8
         IN  [panic    |-> FALSE,
              chunks   |-> [i \in 1..countChunks |->
                               Load64(bf, aft, e, 8 * (i - 1))],
              consumed |-> countChunks * 8]

\* LanesToBytes(lanes): &lanes[0] panics on an empty slice; otherwise the
\* memory of the words seen as countBytes bytes.
LanesToBytes(ls, e) ==
    IF Len(ls) = 0
    THEN [panic |-> TRUE, bytes |-> <<>>]
    ELSE LET countBytes == Len(ls) * 8
         IN  [panic |-> FALSE,
              bytes |-> [n \in 1..countBytes |->
                            Store64(ls[((n - 1) \div 8) + 1], e)[((n - 1) % 8) + 1]]]

\* The n words of the slice that unsafe.Slice laid over the memory of bf, as
\* they read now.
LanesView(bf, aft, e, n) == [k \in 1..n |-> Load64(bf, aft, e, 8 * (k - 1))]

\* A store into lanes that were a copy of the buffer: its memory stays as it
\* was.
StoreLaneIntoCopy(bf, e, k, w) == bf

\* The memory of bf after lanes[k] = w (k counted from 0).
StoreLane(bf, e, k, w) ==
    [n \in 1..Len(bf) |->
        IF (n - 1) \div 8 = k THEN Store64(w, e)[((n - 1) % 8) + 1] ELSE bf[n]]

\* The memory of bf after b[j] = x (j counted from 0).
StoreByte(bf, j, x) == [n \in 1..Len(bf) |-> IF n = j + 1 THEN x ELSE bf[n]]

\* LanesToInt reading the array most significant byte first on every platform.
LanesToIntBigEndian(B, e) == Load64(B, 0, "big", 0)

\* LanesToInt(lanes): the memory of the [8]byte seen as a uint64.
LanesToInt(B, e) == Load64(B, 0, e, 0)

\* IntToLanes(i): the memory of the uint64 seen as an [8]byte.
IntToLanes(x, e) == Store64(x, e)

\* ------------------------------------------------------------------------
\* examples_test.go: visiting the capital letters of a buffer
\* ------------------------------------------------------------------------

lotsOfBytes ==
    <<65, 108, 108, 111, 32, 90, 111, 114, 108, 100,
      33, 32, 73, 32, 97, 109, 32, 78, 79, 84,
      32, 121, 101, 108, 108, 105, 110, 103, 44, 32,
      98, 117, 116, 32, 73, 32, 97, 109, 32, 117,
      115, 105, 110, 103, 32, 83, 87, 65, 82, 33>>

\* The flags of the bytes strictly between 'A' and 'Z'.
CapsOfExclusive(chunk) ==
    And64(HighBitWhereGreater(chunk, Dupe(65)),
          HighBitWhereLess(chunk, Dupe(90)))

firstCapital == Dupe(65 - 1)

lastCapital == Dupe(90 + 1)

\* caps: the flags of the bytes above 'A'-1 and below 'Z'+1.
CapsOf(chunk) ==
    And64(HighBitWhereGreater(chunk, firstCapital),
          HighBitWhereLess(chunk, lastCapital))

\* offsets: the table entry of the gathered flags of a chunk.
OffsetsOf(chunk) ==
    Lookup.OnesPositions[ExtractLowBits(Shr64(CapsOf(chunk), 7))]

\* The terms v + idx*8 that the inner loop adds to sum for chunk idx.
ChunkVisits(offsets, idx) ==
    [n \in 1..Len(offsets) |-> offsets[n] + idx * 8]

\* The offsets looked up by the loop over the first n chunks.
RECURSIVE ChunksOffsets(_, _)
ChunksOffsets(chunks, n) ==
    IF n = 0 THEN <<>>
    ELSE Append(ChunksOffsets(chunks, n - 1), OffsetsOf(chunks[n]))

\* The terms added to sum by the loop over the first n chunks.
RECURSIVE ChunksVisits(_, _)
ChunksVisits(offsets, n) ==
    IF n = 0 THEN <<>>
    ELSE ChunksVisits(offsets, n - 1) \o ChunkVisits(offsets[n], n - 1)

\* The terms unused + i added to sum by the scalar loop over the first n
\* bytes of lotsOfBytes[unused:].
RECURSIVE TailVisits(_, _, _)
TailVisits(bf, unused, n) ==
    IF n = 0 THEN <<>>
    ELSE TailVisits(bf, unused, n - 1)
             \o (IF bf[unused + n] >= 65 /\ bf[unused + n] <= 90
                 THEN <<unused + n - 1>> ELSE <<>>)

RECURSIVE SumOf(_)
SumOf(s) == IF s = <<>> THEN 0 ELSE Head(s) + SumOf(Tail(s))

\* One pass of the benchmark body over the buffer bf: the lanes, the offsets
\* looked up for each chunk, the terms added to sum in order, and sum.
VisitCaps(bf, aft, e) ==
    LET r == BytesToLanes(bf, aft, e)
    IN  IF r.panic
        THEN [panic |-> TRUE, chunks |-> <<>>, unused |-> 0,
              offsets |-> <<>>, visited |-> <<>>, sum |-> 0]
        ELSE LET offsets == ChunksOffsets(r.chunks, Len(r.chunks))
                 visited ==
                     ChunksVisits(offsets, Len(offsets))
                         \o TailVisits(bf, r.consumed, Len(bf) - r.consumed)
             IN  [panic   |-> FALSE,
                  chunks  |-> r.chunks,
                  unused  |-> r.consumed,
                  offsets |-> offsets,
                  visited |-> visited,
                  sum     |-> SumOf(visited)]

\* ------------------------------------------------------------------------
\* examples_test.go: counting the occurrences of a byte in a buffer
\* ------------------------------------------------------------------------

\* The text of the README's character counter, "Hello, World!".
text == <<72, 101, 108, 108, 111, 44, 32, 87, 111, 114, 108, 100, 33>>

\* bits.OnesCount8(x)
RECURSIVE OnesCount8(_)
OnesCount8(x) == IF x = 0 THEN 0 ELSE (x % 2) + OnesCount8(x \div 2)

\* bits.OnesCount64(w)
OnesCount64(w) ==
    OnesCount8(w[1]) + OnesCount8(w[2]) + OnesCount8(w[3]) + OnesCount8(w[4])
        + OnesCount8(w[5]) + OnesCount8(w[6]) + OnesCount8(w[7])
        + OnesCount8(w[8])

\* What the loop over the first n chunks adds to count.
RECURSIVE CountInChunks(_, _, _)
CountInChunks(chunks, spaces, n) ==
    IF n = 0 THEN 0
    ELSE CountInChunks(chunks, spaces, n - 1)
             + OnesCount64(HighBitWhereEqual(chunks[n], spaces))

\* What the scalar loop over the first n bytes of lotsOfBytes[unused:] adds to
\* count.
RECURSIVE CountInTail(_, _, _, _)
CountInTail(bf, unused, ch, n) ==
    IF n = 0 THEN 0
    ELSE CountInTail(bf, unused, ch, n - 1)
             + (IF bf[unused + n] = ch THEN 1 ELSE 0)

\* The benchmark body without the scalar loop over the bytes left unused.
CountOccurrencesNoTail(bf, aft, e, ch) ==
    LET r == BytesToLanes(bf, aft, e)
    IN  IF r.panic
        THEN [panic |-> TRUE, chunks |-> <<>>, unused |-> 0, count |-> 0]
        ELSE [panic  |-> FALSE,
              chunks |-> r.chunks,
              unused |-> r.consumed,
              count  |-> CountInChunks(r.chunks, Dupe(ch), Len(r.chunks))]

\* One pass of the benchmark body over the buffer bf, for the byte ch in
\* place of ' '.
CountOccurrences(bf, aft, e, ch) ==
    LET r == BytesToLanes(bf, aft, e)
    IN  IF r.panic
        THEN [panic |-> TRUE, chunks |-> <<>>, unused |-> 0, count |-> 0]
        ELSE [panic  |-> FALSE,
              chunks |-> r.chunks,
              unused |-> r.consumed,
              count  |-> CountInChunks(r.chunks, Dupe(ch), Len(r.chunks))
                           + CountInTail(bf, r.consumed, ch,
                                         Len(bf) - r.consumed)]

\* ------------------------------------------------------------------------
\* examples_test.go: the anomaly detectors
\* ------------------------------------------------------------------------

\* currentTemps after the input of iteration n: byte n%8 is incremented, and
\* set to 0 when n%81 == 0.
BumpTemps(cur, n) ==
    [j \in 1..8 |->
        IF j # (n % 8) + 1 THEN cur[j]
        ELSE IF n % 81 = 0 THEN 0
        ELSE (cur[j] + 1) % 256]

threshold == Dupe(2)

\* The SWAR detector taking the distance with a subtraction clamped at zero:
\* only a rise of the temperature counts.
SwarDetectRisesOnly(current, average) ==
    LET avg1          == AverageBytes(current, average)
        delta         == SubtractBytesWithMinimum(current, avg1)
        overThreshold == HighBitWhereGreater(delta, threshold)
    IN  IF overThreshold # Rep(0)
        THEN [average |-> current, anomalies |-> 1]
        ELSE [average |-> avg1, anomalies |-> 0]

\* The SWAR detector on the lane current: the new averageTemps[0] and what is
\* added to anomalies.
SwarDetect(current, average) ==
    LET avg1          == AverageBytes(current, average)
        delta         == AbsoluteDifferenceBetweenBytes(current, avg1)
        overThreshold == HighBitWhereGreater(delta, threshold)
    IN  IF overThreshold # Rep(0)
        THEN [average |-> current, anomalies |-> 1]
        ELSE [average |-> avg1, anomalies |-> 0]

\* The byte-by-byte detector: byte j is an anomaly when it is more than 2 away
\* from its previous average.
NaiveOver(cur, avg, j) == cur[j] - avg[j] > 2 \/ cur[j] - avg[j] < -2

\* The byte-by-byte detector on the bytes cur: the new averageTemps and what
\* is added to anomalies.
NaiveDetect(cur, avg) ==
    [average   |-> [j \in 1..8 |->
                       IF NaiveOver(cur, avg, j) THEN cur[j]
                       ELSE (avg[j] + cur[j]) \div 2],
     anomalies |-> Cardinality({j \in 1..8 : NaiveOver(cur, avg, j)})]

\* ------------------------------------------------------------------------
\* State
\* ------------------------------------------------------------------------

VARIABLES
    op,        \* the function called last, "none" before the first call
    a,         \* first operand word (v of the comparators)
    b,         \* second operand word (cm of the comparators)
    mask,      \* the flag word (mask of SelectByLowBit, v of ExtractLowBits)
    c,         \* a byte operand (the index into Lookup.OnesPositions)
    res,       \* what the last call on words returned
    buf,       \* the []byte handed to BytesToLanes
    after,     \* the byte value held by the memory behind buf
    endian,    \* byte order of the platform
    lanes,     \* the []uint64 returned by BytesToLanes
    consumed,  \* the int returned by BytesToLanes
    bytes,     \* the []byte returned by LanesToBytes
    panicked,  \* the last call ended in a run-time panic
    a2,        \* first operand word of a second call of the same function
    b2,        \* second operand word of the second call
    res2,      \* what the second call returned
    storeIdx,  \* the index of the last store into lanes or buf
    swarI,     \* loop counter i of the SWAR anomaly detector
    currentTemps,   \* its []byte currentTemps, which currentLane aliases
    averageTemps,   \* its averageTemps[0]
    anomalies,      \* its anomalies
    naiveI,         \* loop counter i of the byte-by-byte anomaly detector
    naiveCurrent,   \* its currentTemps
    naiveAverage,   \* its averageTemps
    naiveAnomalies  \* its anomalies

pairVars == <<a2, b2, res2>>

detectorVars == <<swarI, currentTemps, averageTemps, anomalies>>

naiveVars == <<naiveI, naiveCurrent, naiveAverage, naiveAnomalies>>

extraVars == <<pairVars, storeIdx, detectorVars, naiveVars>>

vars == <<op, a, b, mask, c, res, buf, after, endian, lanes, consumed, bytes,
          panicked, extraVars>>

wordVars == <<a, b, mask, c>>

codecVars == <<buf, after, endian, lanes, consumed, bytes, panicked>>

Zero == Rep(0)

\* No second call, no store and no detector running.
NoExtra ==
    /\ a2 = Zero
    /\ b2 = Zero
    /\ res2 = Zero
    /\ storeIdx = 0
    /\ swarI = 0
    /\ currentTemps = <<>>
    /\ averageTemps = Zero
    /\ anomalies = 0
    /\ naiveI = 0
    /\ naiveCurrent = <<>>
    /\ naiveAverage = <<>>
    /\ naiveAnomalies = 0

\* No buffer: the state of the codec while the word operations are called.
NoCodec ==
    /\ buf = <<>>
    /\ after = 0
    /\ endian = "little"
    /\ lanes = <<>>
    /\ consumed = 0
    /\ bytes = <<>>
    /\ panicked = FALSE

\* ------------------------------------------------------------------------
\* Two-operand operations
\* ------------------------------------------------------------------------

\* Byte values within Near of 0, of the sign boundary 128 and of 255.
ByteVals == (0..Near) \cup ((128 - Near)..(127 + Near)) \cup {255}

\* Bytes that fill the lanes outside the varying window.
Fills == {0, 255}

\* A word with lo in lane p, hi in lane p + 1 and f in the other lanes
\* (lanes counted from 1 at the least-significant byte).
Window(p, lo, hi, f) ==
    [k \in LaneIdx |-> IF k = p THEN lo ELSE IF k = p + 1 THEN hi ELSE f]

\* Two operand words that vary in the same two adjacent lanes.
Init ==
    /\ op = "none"
    /\ \E p \in 1..7 :
         \E al \in ByteVals, ah \in ByteVals, bl \in ByteVals, bh \in ByteVals :
           \E fa \in Fills, fb \in Fills :
             /\ a = Window(p, al, ah, fa)
             /\ b = Window(p, bl, bh, fb)
    /\ mask = Zero
    /\ c = 0
    /\ res = Zero
    /\ NoExtra
    /\ NoCodec

\* Each behaviour is one call of one function on the operands.

CallHighBitWhereLess ==
    /\ op = "none"
    /\ op' = "HighBitWhereLess"
    /\ res' = HighBitWhereLess(a, b)
    /\ UNCHANGED wordVars
    /\ UNCHANGED extraVars
    /\ UNCHANGED codecVars

CallHighBitWhereGreater ==
    /\ op = "none"
    /\ op' = "HighBitWhereGreater"
    /\ res' = HighBitWhereGreater(a, b)
    /\ UNCHANGED wordVars
    /\ UNCHANGED extraVars
    /\ UNCHANGED codecVars

CallHighBitWhereEqual ==
    /\ op = "none"
    /\ op' = "HighBitWhereEqual"
    /\ res' = HighBitWhereEqual(a, b)
    /\ UNCHANGED wordVars
    /\ UNCHANGED extraVars
    /\ UNCHANGED codecVars

\* HighBitWhereEqual(Dupe(c), Dupe(d)) for the bytes c, d in the low lane of
\* the operands: the callers compare against a broadcast byte.
CallEqualOfDupes ==
    /\ op = "none"
    /\ op' = "EqualOfDupes"
    /\ res' = HighBitWhereEqual(Dupe(a[1]), Dupe(b[1]))
    /\ UNCHANGED wordVars
    /\ UNCHANGED extraVars
    /\ UNCHANGED codecVars

Next ==
    \/ CallHighBitWhereLess
    \/ CallHighBitWhereGreater
    \/ CallHighBitWhereEqual
    \/ CallEqualOfDupes

Spec == Init /\ [][Next]_vars

\* C1: after HighBitWhereLess(v, cm), byte k of the result is 0x80 where byte
\* k of v is below byte k of cm as unsigned bytes, and 0x00 elsewhere, for all
\* byte values including those with the high bit set.
LessPerLane ==
    op = "HighBitWhereLess" =>
        \A k \in LaneIdx : res[k] = (IF a[k] < b[k] THEN 128 ELSE 0)

\* A call where a lane of two high-bit bytes is flagged, and where a lane of
\* equal bytes above a lane that is less is not flagged.
LessPerLaneWitness ==
    /\ op = "HighBitWhereLess"
    /\ \E k \in LaneIdx :
         a[k] >= 128 /\ b[k] >= 128 /\ a[k] < b[k] /\ res[k] = 128
    /\ \E k \in 2..8 : a[k - 1] < b[k - 1] /\ a[k] = b[k] /\ res[k] = 0

\* C2: after HighBitWhereGreater(v, cm), byte k of the result is 0x80 where
\* byte k of v is above byte k of cm as unsigned bytes, and 0x00 elsewhere;
\* the result is HighBitWhereLess(cm, v).
GreaterPerLane ==
    op = "HighBitWhereGreater" =>
        /\ \A k \in LaneIdx : res[k] = (IF a[k] > b[k] THEN 128 ELSE 0)
        /\ res = HighBitWhereLess(b, a)

\* A call where a lane of two high-bit bytes is flagged, and where a lane of
\* equal bytes above a lane that is greater is not flagged.
GreaterPerLaneWitness ==
    /\ op = "HighBitWhereGreater"
    /\ \E k \in LaneIdx :
         a[k] >= 128 /\ b[k] >= 128 /\ a[k] > b[k] /\ res[k] = 128
    /\ \E k \in 2..8 : a[k - 1] > b[k - 1] /\ a[k] = b[k] /\ res[k] = 0

\* C3: after HighBitWhereEqual(v, cm), byte k of the result is 0x80 where byte
\* k of v equals byte k of cm, and 0x00 elsewhere; HighBitWhereEqual(Dupe(c),
\* Dupe(d)) is 0x8080808080808080 when c = d and 0 when c # d.
EqualPerLane ==
    /\ op = "HighBitWhereEqual" =>
           \A k \in LaneIdx : res[k] = (IF a[k] = b[k] THEN 128 ELSE 0)
    /\ op = "EqualOfDupes" =>
           res = (IF a[1] = b[1] THEN Rep(128) ELSE Rep(0))

\* A call where a lane of equal bytes sits above a lane whose bytes differ in
\* every bit, and both are flagged as they should.
EqualPerLaneWitness ==
    /\ op = "HighBitWhereEqual"
    /\ \E k \in 2..8 :
         /\ a[k - 1] = 255 /\ b[k - 1] = 0 /\ res[k - 1] = 0
         /\ a[k] = b[k] /\ res[k] = 128

\* ------------------------------------------------------------------------
\* Addition and subtraction, on the operand pairs of Init
\* ------------------------------------------------------------------------

CallAddBytesWithWrapping ==
    /\ op = "none"
    /\ op' = "AddBytesWithWrapping"
    /\ res' = AddBytesWithWrapping(a, b)
    /\ UNCHANGED wordVars
    /\ UNCHANGED extraVars
    /\ UNCHANGED codecVars

CallSubtractBytesWithWrapping ==
    /\ op = "none"
    /\ op' = "SubtractBytesWithWrapping"
    /\ res' = SubtractBytesWithWrapping(a, b)
    /\ UNCHANGED wordVars
    /\ UNCHANGED extraVars
    /\ UNCHANGED codecVars

CallAddBytesWithMaximum ==
    /\ op = "none"
    /\ op' = "AddBytesWithMaximum"
    /\ res' = AddBytesWithMaximum(a, b)
    /\ UNCHANGED wordVars
    /\ UNCHANGED extraVars
    /\ UNCHANGED codecVars

CallSubtractBytesWithMinimum ==
    /\ op = "none"
    /\ op' = "SubtractBytesWithMinimum"
    /\ res' = SubtractBytesWithMinimum(a, b)
    /\ UNCHANGED wordVars
    /\ UNCHANGED extraVars
    /\ UNCHANGED codecVars

NextArith ==
    \/ CallAddBytesWithWrapping
    \/ CallSubtractBytesWithWrapping
    \/ CallAddBytesWithMaximum
    \/ CallSubtractBytesWithMinimum

SpecArith == Init /\ [][NextArith]_vars

\* C13: byte k of AddBytesWithWrapping(a, b) is (byte k of a + byte k of b)
\* mod 256; a carry out of a byte does not change the byte above it.
AddWrapPerLane ==
    op = "AddBytesWithWrapping" =>
        \A k \in LaneIdx : res[k] = (a[k] + b[k]) % 256

\* A call where a lane overflows and the lane above it, whose sum is 0xFF,
\* stays 0xFF.
AddWrapPerLaneWitness ==
    /\ op = "AddBytesWithWrapping"
    /\ \E k \in 2..8 :
         /\ a[k - 1] + b[k - 1] > 255
         /\ res[k - 1] = a[k - 1] + b[k - 1] - 256
         /\ a[k] + b[k] = 255
         /\ res[k] = 255

\* C14: byte k of SubtractBytesWithWrapping(a, b) is (byte k of a - byte k of
\* b) mod 256; a borrow in a byte does not change the byte above it.
SubWrapPerLane ==
    op = "SubtractBytesWithWrapping" =>
        \A k \in LaneIdx : res[k] = (a[k] + 256 - b[k]) % 256

\* A call where a lane borrows and the lane above it, of equal bytes, stays 0.
SubWrapPerLaneWitness ==
    /\ op = "SubtractBytesWithWrapping"
    /\ \E k \in 2..8 :
         /\ a[k - 1] < b[k - 1]
         /\ res[k - 1] = a[k - 1] + 256 - b[k - 1]
         /\ a[k] = b[k]
         /\ res[k] = 0

\* C15: byte k of AddBytesWithMaximum(a, b) is min(255, byte k of a + byte k
\* of b).
AddMaxPerLane ==
    op = "AddBytesWithMaximum" =>
        \A k \in LaneIdx :
            res[k] = (IF a[k] + b[k] > 255 THEN 255 ELSE a[k] + b[k])

\* A call where one lane is clamped to 0xFF and the lane above it holds the
\* exact sum of two non-zero bytes.
AddMaxPerLaneWitness ==
    /\ op = "AddBytesWithMaximum"
    /\ \E k \in 2..8 :
         /\ a[k - 1] + b[k - 1] > 256
         /\ res[k - 1] = 255
         /\ a[k] > 0 /\ b[k] > 0 /\ a[k] + b[k] < 255
         /\ res[k] = a[k] + b[k]

\* C16: byte k of SubtractBytesWithMinimum(a, b) is max(0, byte k of a - byte
\* k of b).
SubMinPerLane ==
    op = "SubtractBytesWithMinimum" =>
        \A k \in LaneIdx :
            res[k] = (IF b[k] > a[k] THEN 0 ELSE a[k] - b[k])

\* A call where one lane is clamped to 0x00 and the lane above it holds the
\* exact difference.
SubMinPerLaneWitness ==
    /\ op = "SubtractBytesWithMinimum"
    /\ \E k \in 2..8 :
         /\ a[k - 1] < b[k - 1]
         /\ res[k - 1] = 0
         /\ a[k] > b[k] /\ b[k] > 0
         /\ res[k] = a[k] - b[k]

\* ------------------------------------------------------------------------
\* Distance, minimum, maximum and average, on the operand pairs of Init
\* ------------------------------------------------------------------------

CallAbsoluteDifferenceBetweenBytes ==
    /\ op = "none"
    /\ op' = "AbsoluteDifferenceBetweenBytes"
    /\ res' = AbsoluteDifferenceBetweenBytes(a, b)
    /\ UNCHANGED wordVars
    /\ UNCHANGED extraVars
    /\ UNCHANGED codecVars

CallSelectSmallerBytes ==
    /\ op = "none"
    /\ op' = "SelectSmallerBytes"
    /\ res' = SelectSmallerBytes(a, b)
    /\ UNCHANGED wordVars
    /\ UNCHANGED extraVars
    /\ UNCHANGED codecVars

CallSelectLargerBytes ==
    /\ op = "none"
    /\ op' = "SelectLargerBytes"
    /\ res' = SelectLargerBytes(a, b)
    /\ UNCHANGED wordVars
    /\ UNCHANGED extraVars
    /\ UNCHANGED codecVars

CallAverageBytes ==
    /\ op = "none"
    /\ op' = "AverageBytes"
    /\ res' = AverageBytes(a, b)
    /\ UNCHANGED wordVars
    /\ UNCHANGED extraVars
    /\ UNCHANGED codecVars

NextOrder ==
    \/ CallAbsoluteDifferenceBetweenBytes
    \/ CallSelectSmallerBytes
    \/ CallSelectLargerBytes
    \/ CallAverageBytes

SpecOrder == Init /\ [][NextOrder]_vars

\* The full-word difference a - b borrows into lane k: the lanes below k, read
\* as one number, are smaller in a than in b.
RECURSIVE BorrowInto(_, _, _)
BorrowInto(x, y, k) ==
    IF k = 1 THEN FALSE
    ELSE \/ x[k - 1] < y[k - 1]
         \/ x[k - 1] = y[k - 1] /\ BorrowInto(x, y, k - 1)

\* C17: byte k of AbsoluteDifferenceBetweenBytes(a, b) is |byte k of a - byte
\* k of b|, whatever the other bytes are, also when a - b borrows into byte k.
AbsDiffPerLane ==
    op = "AbsoluteDifferenceBetweenBytes" =>
        \A k \in LaneIdx :
            res[k] = (IF a[k] < b[k] THEN b[k] - a[k] ELSE a[k] - b[k])

\* A call where a - b borrows into a lane whose byte of a is the larger by
\* one, and the lane below it has the byte of b the larger.
AbsDiffPerLaneWitness ==
    /\ op = "AbsoluteDifferenceBetweenBytes"
    /\ \E k \in 2..8 :
         /\ BorrowInto(a, b, k)
         /\ a[k - 1] < b[k - 1]
         /\ res[k - 1] = b[k - 1] - a[k - 1]
         /\ a[k] = b[k] + 1
         /\ res[k] = 1

\* C18: byte k of SelectSmallerBytes(a, b) is the unsigned minimum of byte k
\* of a and byte k of b, whatever the other bytes are.
MinPerLane ==
    op = "SelectSmallerBytes" =>
        \A k \in LaneIdx : res[k] = (IF a[k] < b[k] THEN a[k] ELSE b[k])

\* A call where a - b borrows into a lane whose byte of a is the larger by
\* one, and the smaller bytes come from both operands.
MinPerLaneWitness ==
    /\ op = "SelectSmallerBytes"
    /\ \E k \in 2..8 :
         /\ BorrowInto(a, b, k)
         /\ a[k - 1] < b[k - 1]
         /\ res[k - 1] = a[k - 1]
         /\ a[k] = b[k] + 1
         /\ res[k] = b[k]

\* C19: byte k of SelectLargerBytes(a, b) is the unsigned maximum of byte k of
\* a and byte k of b, whatever the other bytes are.
MaxPerLane ==
    op = "SelectLargerBytes" =>
        \A k \in LaneIdx : res[k] = (IF a[k] > b[k] THEN a[k] ELSE b[k])

\* A call where a - b borrows into a lane whose byte of a is the larger by
\* one, and the larger bytes come from both operands.
MaxPerLaneWitness ==
    /\ op = "SelectLargerBytes"
    /\ \E k \in 2..8 :
         /\ BorrowInto(a, b, k)
         /\ a[k - 1] < b[k - 1]
         /\ res[k - 1] = b[k - 1]
         /\ a[k] = b[k] + 1
         /\ res[k] = a[k]

\* C20: byte k of AverageBytes(a, b) is floor((byte k of a + byte k of b) / 2);
\* AverageBytes(a, a) = a and AverageBytes(Dupe(0), Dupe(255)) = Dupe(127).
AveragePerLane ==
    op = "AverageBytes" =>
        /\ \A k \in LaneIdx : res[k] = (a[k] + b[k]) \div 2
        /\ a = b => res = a
        /\ (a = Dupe(0) /\ b = Dupe(255)) => res = Dupe(127)

\* The call AverageBytes(Dupe(0), Dupe(255)), which returns Dupe(127).
AveragePerLaneWitness ==
    /\ op = "AverageBytes"
    /\ a = Dupe(0)
    /\ b = Dupe(255)
    /\ res = Dupe(127)

\* ------------------------------------------------------------------------
\* Two calls of a two-operand operation
\* ------------------------------------------------------------------------

\* The word with byte x in lane k and f in the other lanes.
LaneIn(k, x, f) ==
    <<IF k = 1 THEN x ELSE f, IF k = 2 THEN x ELSE f,
      IF k = 3 THEN x ELSE f, IF k = 4 THEN x ELSE f,
      IF k = 5 THEN x ELSE f, IF k = 6 THEN x ELSE f,
      IF k = 7 THEN x ELSE f, IF k = 8 THEN x ELSE f>>

\* Two pairs of operand words that agree in one lane; each word has 0x00 or
\* 0xFF in its other lanes.
InitLanes ==
    /\ op = "none"
    /\ \E k \in LaneIdx, x \in ByteVals, y \in ByteVals :
         \E fa \in Fills, fb \in Fills, fa2 \in Fills, fb2 \in Fills :
           /\ a = LaneIn(k, x, fa)
           /\ b = LaneIn(k, y, fb)
           /\ a2 = LaneIn(k, x, fa2)
           /\ b2 = LaneIn(k, y, fb2)
    /\ mask = Zero
    /\ c = 0
    /\ res = Zero
    /\ res2 = Zero
    /\ storeIdx = 0
    /\ swarI = 0
    /\ currentTemps = <<>>
    /\ averageTemps = Zero
    /\ anomalies = 0
    /\ naiveI = 0
    /\ naiveCurrent = <<>>
    /\ naiveAverage = <<>>
    /\ naiveAnomalies = 0
    /\ NoCodec

TwiceHighBitWhereLess ==
    /\ op = "none"
    /\ op' = "HighBitWhereLess twice"
    /\ res' = HighBitWhereLess(a, b)
    /\ res2' = HighBitWhereLess(a2, b2)
    /\ UNCHANGED <<wordVars, a2, b2>>
    /\ UNCHANGED <<storeIdx, detectorVars, naiveVars>>
    /\ UNCHANGED codecVars

TwiceHighBitWhereGreater ==
    /\ op = "none"
    /\ op' = "HighBitWhereGreater twice"
    /\ res' = HighBitWhereGreater(a, b)
    /\ res2' = HighBitWhereGreater(a2, b2)
    /\ UNCHANGED <<wordVars, a2, b2>>
    /\ UNCHANGED <<storeIdx, detectorVars, naiveVars>>
    /\ UNCHANGED codecVars

TwiceHighBitWhereEqual ==
    /\ op = "none"
    /\ op' = "HighBitWhereEqual twice"
    /\ res' = HighBitWhereEqual(a, b)
    /\ res2' = HighBitWhereEqual(a2, b2)
    /\ UNCHANGED <<wordVars, a2, b2>>
    /\ UNCHANGED <<storeIdx, detectorVars, naiveVars>>
    /\ UNCHANGED codecVars

TwiceAddBytesWithWrapping ==
    /\ op = "none"
    /\ op' = "AddBytesWithWrapping twice"
    /\ res' = AddBytesWithWrapping(a, b)
    /\ res2' = AddBytesWithWrapping(a2, b2)
    /\ UNCHANGED <<wordVars, a2, b2>>
    /\ UNCHANGED <<storeIdx, detectorVars, naiveVars>>
    /\ UNCHANGED codecVars

TwiceAddBytesWithMaximum ==
    /\ op = "none"
    /\ op' = "AddBytesWithMaximum twice"
    /\ res' = AddBytesWithMaximum(a, b)
    /\ res2' = AddBytesWithMaximum(a2, b2)
    /\ UNCHANGED <<wordVars, a2, b2>>
    /\ UNCHANGED <<storeIdx, detectorVars, naiveVars>>
    /\ UNCHANGED codecVars

TwiceSubtractBytesWithWrapping ==
    /\ op = "none"
    /\ op' = "SubtractBytesWithWrapping twice"
    /\ res' = SubtractBytesWithWrapping(a, b)
    /\ res2' = SubtractBytesWithWrapping(a2, b2)
    /\ UNCHANGED <<wordVars, a2, b2>>
    /\ UNCHANGED <<storeIdx, detectorVars, naiveVars>>
    /\ UNCHANGED codecVars

TwiceSubtractBytesWithMinimum ==
    /\ op = "none"
    /\ op' = "SubtractBytesWithMinimum twice"
    /\ res' = SubtractBytesWithMinimum(a, b)
    /\ res2' = SubtractBytesWithMinimum(a2, b2)
    /\ UNCHANGED <<wordVars, a2, b2>>
    /\ UNCHANGED <<storeIdx, detectorVars, naiveVars>>
    /\ UNCHANGED codecVars

TwiceAbsoluteDifferenceBetweenBytes ==
    /\ op = "none"
    /\ op' = "AbsoluteDifferenceBetweenBytes twice"
    /\ res' = AbsoluteDifferenceBetweenBytes(a, b)
    /\ res2' = AbsoluteDifferenceBetweenBytes(a2, b2)
    /\ UNCHANGED <<wordVars, a2, b2>>
    /\ UNCHANGED <<storeIdx, detectorVars, naiveVars>>
    /\ UNCHANGED codecVars

TwiceSelectSmallerBytes ==
    /\ op = "none"
    /\ op' = "SelectSmallerBytes twice"
    /\ res' = SelectSmallerBytes(a, b)
    /\ res2' = SelectSmallerBytes(a2, b2)
    /\ UNCHANGED <<wordVars, a2, b2>>
    /\ UNCHANGED <<storeIdx, detectorVars, naiveVars>>
    /\ UNCHANGED codecVars

TwiceSelectLargerBytes ==
    /\ op = "none"
    /\ op' = "SelectLargerBytes twice"
    /\ res' = SelectLargerBytes(a, b)
    /\ res2' = SelectLargerBytes(a2, b2)
    /\ UNCHANGED <<wordVars, a2, b2>>
    /\ UNCHANGED <<storeIdx, detectorVars, naiveVars>>
    /\ UNCHANGED codecVars

TwiceAverageBytes ==
    /\ op = "none"
    /\ op' = "AverageBytes twice"
    /\ res' = AverageBytes(a, b)
    /\ res2' = AverageBytes(a2, b2)
    /\ UNCHANGED <<wordVars, a2, b2>>
    /\ UNCHANGED <<storeIdx, detectorVars, naiveVars>>
    /\ UNCHANGED codecVars

NextLanes ==
    \/ TwiceHighBitWhereLess
    \/ TwiceHighBitWhereGreater
    \/ TwiceHighBitWhereEqual
    \/ TwiceAddBytesWithWrapping
    \/ TwiceAddBytesWithMaximum
    \/ TwiceSubtractBytesWithWrapping
    \/ TwiceSubtractBytesWithMinimum
    \/ TwiceAbsoluteDifferenceBetweenBytes
    \/ TwiceSelectSmallerBytes
    \/ TwiceSelectLargerBytes
    \/ TwiceAverageBytes

SpecLanes == InitLanes /\ [][NextLanes]_vars

\* C21: for each of the eleven two-operand operations and every byte position
\* k, two operand pairs that agree in byte k give results that agree in byte
\* k, whatever their other seven bytes are.
LaneIndependence ==
    op # "none" =>
        \A k \in LaneIdx :
            (a[k] = a2[k] /\ b[k] = b2[k]) => res[k] = res2[k]

\* Two calls of AbsoluteDifferenceBetweenBytes on pairs that agree in a lane,
\* where a - b borrows into that lane in the first pair only: the results
\* agree in the lane and differ below it.
LaneIndependenceWitness ==
    /\ op = "AbsoluteDifferenceBetweenBytes twice"
    /\ \E k \in 2..8 :
         /\ a[k] = a2[k] /\ b[k] = b2[k]
         /\ a[k] > b[k]
         /\ BorrowInto(a, b, k)
         /\ ~BorrowInto(a2, b2, k)
         /\ res[k] = a[k] - b[k]
         /\ res2[k] = res[k]
         /\ res[k - 1] # res2[k - 1]

\* ------------------------------------------------------------------------
\* Operations on a flag word
\* ------------------------------------------------------------------------

\* Bits 1..7 added to one lane of a 0/1 flag word.
Dirt == {0, 2, 128, 254}

\* Two pairs of operand words whose lanes all differ.
SelectA == {Rep(17), Lit(1, 35, 69, 103, 137, 171, 205, 239)}

SelectB == {Rep(34), Lit(254, 220, 186, 152, 118, 84, 50, 16)}

\* Every flag word with 0 or 1 in each lane, and each of them with the bits
\* of Dirt added to one lane.
InitFlags ==
    /\ op = "none"
    /\ a \in SelectA
    /\ b \in SelectB
    /\ \E f \in [LaneIdx -> {0, 1}] :
         \E p \in LaneIdx, d \in Dirt :
           mask = [k \in LaneIdx |-> IF k = p THEN f[k] + d ELSE f[k]]
    /\ c = 0
    /\ res = Zero
    /\ NoExtra
    /\ NoCodec

CallSelectByLowBit ==
    /\ op = "none"
    /\ op' = "SelectByLowBit"
    /\ res' = SelectByLowBit(a, b, mask)
    /\ UNCHANGED wordVars
    /\ UNCHANGED extraVars
    /\ UNCHANGED codecVars

CallExtractLowBits ==
    /\ op = "none"
    /\ op' = "ExtractLowBits"
    /\ res' = ExtractLowBits(mask)
    /\ UNCHANGED wordVars
    /\ UNCHANGED extraVars
    /\ UNCHANGED codecVars

NextFlags ==
    \/ CallSelectByLowBit
    \/ CallExtractLowBits

SpecFlags == InitFlags /\ [][NextFlags]_vars

\* Lane i of a word in the order of the reference helpers: lane 0 is the
\* most-significant byte, lane 7 the least-significant byte.
LaneMSB(w, i) == w[8 - i]

\* Every lane of the flag word is 0x00 or 0x01.
CleanFlags == \A k \in LaneIdx : mask[k] \in {0, 1}

\* C7: with a mask whose bytes are each 0x00 or 0x01, byte k of
\* SelectByLowBit(a, b, mask) is byte k of a where the mask byte is 0x01 and
\* byte k of b where it is 0x00.
SelectByCleanFlags ==
    (op = "SelectByLowBit" /\ CleanFlags) =>
        \A k \in LaneIdx : res[k] = (IF mask[k] = 1 THEN a[k] ELSE b[k])

\* A call with a clean mask that takes lanes from both operands.
SelectByCleanFlagsWitness ==
    /\ op = "SelectByLowBit"
    /\ CleanFlags
    /\ \E k \in LaneIdx : mask[k] = 1 /\ res[k] = a[k] /\ a[k] # b[k]
    /\ \E k \in LaneIdx : mask[k] = 0 /\ res[k] = b[k] /\ a[k] # b[k]

\* C8: with arbitrary mask bytes, byte k of SelectByLowBit(a, b, mask) is byte
\* k of a if bit 0 of mask byte k is 1 and byte k of b otherwise; bits 1..7 of
\* the mask bytes have no effect.
SelectIgnoresHighMaskBits ==
    op = "SelectByLowBit" =>
        \A k \in LaneIdx : res[k] = (IF mask[k] % 2 = 1 THEN a[k] ELSE b[k])

\* C9: for a word with only bit 0 of each byte possibly set, bit (7 - i) of
\* ExtractLowBits(v) is the low bit of lane i, lane 0 being the
\* most-significant byte of v.
ExtractLaneOrder ==
    (op = "ExtractLowBits" /\ CleanFlags) =>
        /\ res \in Byte
        /\ \A i \in 0..7 : (res \div Pow2(7 - i)) % 2 = LaneMSB(mask, i)

\* A call on the word with lanes 0 and 2 set, which returns 0b10100000.
ExtractLaneOrderWitness ==
    /\ op = "ExtractLowBits"
    /\ mask = Lit(1, 0, 1, 0, 0, 0, 0, 0)
    /\ res = 160

\* C10: for every word v, ExtractLowBits(v) = ExtractLowBits(v &
\* 0x0101010101010101): bits 1..7 of the bytes of v do not reach the result.
ExtractIgnoresHighBits ==
    op = "ExtractLowBits" => res = ExtractLowBits(And64(mask, LowBits))

\* ------------------------------------------------------------------------
\* The lane codec
\* ------------------------------------------------------------------------

\* A buffer of n bytes that starts at byte value s and steps by d.
BufOf(n, s, d) == [i \in 1..n |-> (s + d * (i - 1)) % 256]

InitCodec ==
    /\ op = "none"
    /\ a = Zero
    /\ b = Zero
    /\ mask = Zero
    /\ c = 0
    /\ res = Zero
    /\ NoExtra
    /\ \E n \in 0..MaxBufLen, s \in {1, 200}, d \in {1, 7} : buf = BufOf(n, s, d)
    /\ after \in {0, 255}
    /\ endian \in ByteOrders
    /\ lanes = <<>>
    /\ consumed = 0
    /\ bytes = <<>>
    /\ panicked = FALSE

\* lanes, consumed := BytesToLanes(buf)
CallBytesToLanes ==
    /\ op = "none"
    /\ op' = "BytesToLanes"
    /\ LET r == BytesToLanes(buf, after, endian)
       IN  /\ panicked' = r.panic
           /\ lanes' = r.chunks
           /\ consumed' = r.consumed
    /\ UNCHANGED <<buf, after, endian, bytes>>
    /\ UNCHANGED <<a, b, mask, c, res>>
    /\ UNCHANGED extraVars

\* bytes := LanesToBytes(lanes)
CallLanesToBytes ==
    /\ op = "BytesToLanes"
    /\ ~panicked
    /\ op' = "LanesToBytes"
    /\ LET r == LanesToBytes(lanes, endian)
       IN  /\ panicked' = r.panic
           /\ bytes' = r.bytes
    /\ UNCHANGED <<buf, after, endian, lanes, consumed>>
    /\ UNCHANGED <<a, b, mask, c, res>>
    /\ UNCHANGED extraVars

NextCodec ==
    \/ CallBytesToLanes
    \/ CallLanesToBytes

SpecCodec == InitCodec /\ [][NextCodec]_vars

\* C4: for a non-empty buffer, BytesToLanes returns floor(len / 8) lanes and
\* consumed = 8 * floor(len / 8), leaving 0..7 bytes; lane i holds exactly the
\* bytes b[8i..8i+7] and the lanes end inside the buffer.
PackWholeLanes ==
    (op = "BytesToLanes" /\ Len(buf) > 0) =>
        /\ ~panicked
        /\ Len(lanes) = Len(buf) \div 8
        /\ consumed = 8 * (Len(buf) \div 8)
        /\ Len(buf) - consumed \in 0..7
        /\ 8 * Len(lanes) <= Len(buf)
        /\ \A i \in 1..Len(lanes) : \A j \in 1..8 :
             lanes[i][IF endian = "little" THEN j ELSE 9 - j]
                 = buf[8 * (i - 1) + j]

\* A buffer of 15 bytes packed into one lane, 7 bytes left over.
PackWholeLanesWitness ==
    /\ op = "BytesToLanes"
    /\ ~panicked
    /\ Len(buf) = 15
    /\ Len(lanes) = 1
    /\ consumed = 8

\* C5: BytesToLanes on an empty buffer returns zero lanes and consumed = 0
\* instead of failing.
PackTotal ==
    (op = "BytesToLanes" /\ Len(buf) = 0) =>
        /\ ~panicked
        /\ lanes = <<>>
        /\ consumed = 0

\* C6: for any byte sequence S, also one too short for a lane, the bytes of
\* LanesToBytes(lanes) followed by S[consumed:] are S.
RoundTrip ==
    op = "LanesToBytes" =>
        /\ ~panicked
        /\ bytes \o SubSeq(buf, consumed + 1, Len(buf)) = buf

\* The round trip of the buffers that fill at least one lane, in either byte
\* order.
RoundTripOfWholeLanes ==
    (op = "LanesToBytes" /\ Len(buf) >= 8) =>
        /\ ~panicked
        /\ bytes \o SubSeq(buf, consumed + 1, Len(buf)) = buf

\* ------------------------------------------------------------------------
\* The table of set bit positions
\* ------------------------------------------------------------------------

InitLookup ==
    /\ op = "none"
    /\ a = Zero
    /\ b = Zero
    /\ mask = Zero
    /\ c \in 0..255
    /\ res = Zero
    /\ NoExtra
    /\ NoCodec

\* res := Lookup.OnesPositions[c]
CallOnesPositions ==
    /\ op = "none"
    /\ op' = "OnesPositions"
    /\ res' = Lookup.OnesPositions[c]
    /\ UNCHANGED wordVars
    /\ UNCHANGED extraVars
    /\ UNCHANGED codecVars

NextLookup == CallOnesPositions

SpecLookup == InitLookup /\ [][NextLookup]_vars

\* Bit i of the byte x is set.
BitSet(x, i) == And8(x, Pow2(i)) # 0

\* s lists exactly the members of S, each once, in strictly ascending order.
IsAscendingListOf(s, S) ==
    /\ \A n \in 1..(Len(s) - 1) : s[n] < s[n + 1]
    /\ {s[n] : n \in 1..Len(s)} = S

\* C12: for every byte x, Lookup.OnesPositions[x] is the strictly ascending
\* list of exactly the bit indices 0..7 set in x; its length is the number of
\* set bits of x and the entry for 0 is empty.
OnesPositionsAscending ==
    op = "OnesPositions" =>
        /\ IsAscendingListOf(res, {i \in 0..7 : BitSet(c, i)})
        /\ Len(res) = Cardinality({i \in 0..7 : BitSet(c, i)})
        /\ c = 0 => res = <<>>

\* The lookup of 0xA5, which lists the bits 0, 2, 5 and 7.
OnesPositionsAscendingWitness ==
    /\ op = "OnesPositions"
    /\ c = 165
    /\ res = <<0, 2, 5, 7>>

\* ------------------------------------------------------------------------
\* Visiting the capital letters of a buffer
\* ------------------------------------------------------------------------

\* The pairs of a capital letter and a byte that is none.
Palettes == {<<65, 64>>, <<90, 91>>, <<77, 193>>}

\* A buffer of n bytes with the capital pal[1] at the offsets of f in the
\* first chunk, the offsets rotated by three in each further chunk, and
\* pal[2] elsewhere.
CapsBufOf(n, f, pal) ==
    [i \in 1..n |->
        IF ((i - 1) + 3 * ((i - 1) \div 8)) % 8 \in f THEN pal[1] ELSE pal[2]]

InitCaps ==
    /\ op = "none"
    /\ a = Zero
    /\ b = Zero
    /\ mask = Zero
    /\ c = 0
    /\ res = Zero
    /\ NoExtra
    /\ \/ \E n \in 0..MaxBufLen, f \in SUBSET (0..7), pal \in Palettes :
              buf = CapsBufOf(n, f, pal)
       \/ \E n \in {11, Len(lotsOfBytes)} : buf = SubSeq(lotsOfBytes, 1, n)
    /\ after \in {0, 255}
    /\ endian \in ByteOrders
    /\ lanes = <<>>
    /\ consumed = 0
    /\ bytes = <<>>
    /\ panicked = FALSE

\* One pass of the benchmark body: chunks, unused := BytesToLanes(buf), the
\* loop over the chunks and the scalar loop over buf[unused:].
CallVisitCaps ==
    /\ op = "none"
    /\ op' = "VisitCaps"
    /\ \E r \in {VisitCaps(buf, after, endian)} :
           /\ panicked' = r.panic
           /\ lanes' = r.chunks
           /\ consumed' = r.unused
           /\ res' = [offsets |-> r.offsets,
                      visited |-> r.visited,
                      sum     |-> r.sum]
    /\ UNCHANGED <<buf, after, endian, bytes>>
    /\ UNCHANGED wordVars
    /\ UNCHANGED extraVars

NextCaps == CallVisitCaps

SpecCaps == InitCaps /\ [][NextCaps]_vars

\* The byte at index i (from 0) of the buffer is a capital letter.
IsCapitalAt(i) == buf[i + 1] >= 65 /\ buf[i + 1] <= 90

\* C11: for a buffer of at least 8 bytes whose memory is read least
\* significant byte first, the offsets looked up for chunk idx are exactly the
\* ascending list of the j in 0..7 with buf[8*idx + j] in 'A'..'Z', and the
\* offsets j + 8*idx together with the scalar scan of buf[consumed:] are
\* exactly the indices of the capital letters of buf; for "Allo Zorld!" they
\* are {0, 5}.
CapsOffsetsInBufferOrder ==
    (op = "VisitCaps" /\ Len(buf) >= 8 /\ endian = "little") =>
        /\ ~panicked
        /\ Len(res.offsets) = Len(lanes)
        /\ \A idx \in 1..Len(lanes) :
               IsAscendingListOf(res.offsets[idx],
                   {j \in 0..7 : IsCapitalAt(8 * (idx - 1) + j)})
        /\ {res.visited[n] : n \in 1..Len(res.visited)}
               = {i \in 0..(Len(buf) - 1) : IsCapitalAt(i)}
        /\ Len(res.visited)
               = Cardinality({i \in 0..(Len(buf) - 1) : IsCapitalAt(i)})
        /\ buf = SubSeq(lotsOfBytes, 1, 11) =>
               {res.visited[n] : n \in 1..Len(res.visited)} = {0, 5}

\* A pass over a buffer of two chunks and a tail, read least significant byte
\* first, with different capitals in the two chunks and one in the tail, all
\* of them visited.
CapsOffsetsInBufferOrderWitness ==
    /\ op = "VisitCaps"
    /\ endian = "little"
    /\ Len(lanes) = 2
    /\ Len(buf) > consumed
    /\ res.offsets[1] = <<0, 1, 6>>
    /\ res.offsets[2] = <<3, 5, 6>>
    /\ IsCapitalAt(16)
    /\ res.visited = <<0, 1, 6, 11, 13, 14, 16>>

\* ------------------------------------------------------------------------
\* One-operand operations
\* ------------------------------------------------------------------------

\* A word whose lane p runs over every byte value and whose next lane and
\* other lanes hold a few values; the byte of lane p is also the operand c.
InitShuffle ==
    /\ op = "none"
    /\ \E p \in 1..7, hi \in {0, 1, 128, 255}, f \in Fills :
         /\ c \in 0..255
         /\ a = Window(p, c, hi, f)
    /\ b = Zero
    /\ mask = Zero
    /\ res = Zero
    /\ NoExtra
    /\ NoCodec

CallCountOnesPerByte ==
    /\ op = "none"
    /\ op' = "CountOnesPerByte"
    /\ res' = CountOnesPerByte(a)
    /\ UNCHANGED wordVars
    /\ UNCHANGED extraVars
    /\ UNCHANGED codecVars

CallReverseEachByte ==
    /\ op = "none"
    /\ op' = "ReverseEachByte"
    /\ res' = ReverseEachByte(a)
    /\ UNCHANGED wordVars
    /\ UNCHANGED extraVars
    /\ UNCHANGED codecVars

CallSwapByteHalves ==
    /\ op = "none"
    /\ op' = "SwapByteHalves"
    /\ res' = SwapByteHalves(a)
    /\ UNCHANGED wordVars
    /\ UNCHANGED extraVars
    /\ UNCHANGED codecVars

CallDupe ==
    /\ op = "none"
    /\ op' = "Dupe"
    /\ res' = Dupe(c)
    /\ UNCHANGED wordVars
    /\ UNCHANGED extraVars
    /\ UNCHANGED codecVars

NextShuffle ==
    \/ CallCountOnesPerByte
    \/ CallReverseEachByte
    \/ CallSwapByteHalves
    \/ CallDupe

SpecShuffle == InitShuffle /\ [][NextShuffle]_vars

\* The number of set bits of the byte x.
OnesOf(x) == Cardinality({j \in 0..7 : BitSet(x, j)})

\* The byte x with bit j moved to bit 7 - j.
RECURSIVE ReversedFrom(_, _)
ReversedFrom(x, j) ==
    IF j > 7 THEN 0
    ELSE (IF BitSet(x, j) THEN Pow2(7 - j) ELSE 0) + ReversedFrom(x, j + 1)

\* C22: byte k of CountOnesPerByte(v) is the number of set bits (0..8) of byte
\* k of v.
CountOnesPerLane ==
    op = "CountOnesPerByte" =>
        \A k \in LaneIdx : res[k] = OnesOf(a[k])

\* A call on a word with a byte of eight set bits below a byte of one set bit.
CountOnesPerLaneWitness ==
    /\ op = "CountOnesPerByte"
    /\ \E k \in 2..8 :
         /\ a[k - 1] = 255
         /\ res[k - 1] = 8
         /\ a[k] = 128
         /\ res[k] = 1

\* C23: byte k of ReverseEachByte(v) is byte k of v with bit j moved to bit
\* 7 - j; the bytes keep their places in the word.
ReversePerLane ==
    op = "ReverseEachByte" =>
        \A k \in LaneIdx : res[k] = ReversedFrom(a[k], 0)

\* A call that turns the byte 0x1D into 0xB8 next to a byte 0x01 that becomes
\* 0x80 in its own lane.
ReversePerLaneWitness ==
    /\ op = "ReverseEachByte"
    /\ \E k \in 1..7 :
         /\ a[k] = 29
         /\ res[k] = 184
         /\ a[k + 1] = 1
         /\ res[k + 1] = 128

\* C24: byte k of SwapByteHalves(v) is byte k of v with its high and low four
\* bits exchanged; no nibble moves into another byte.
SwapPerLane ==
    op = "SwapByteHalves" =>
        \A k \in LaneIdx : res[k] = (a[k] % 16) * 16 + (a[k] \div 16)

\* A call that turns the byte 0xA7 into 0x7A between bytes 0x00, which stay
\* 0x00.
SwapPerLaneWitness ==
    /\ op = "SwapByteHalves"
    /\ \E k \in 2..7 :
         /\ a[k] = 167
         /\ res[k] = 122
         /\ a[k - 1] = 0 /\ a[k + 1] = 0
         /\ res[k - 1] = 0 /\ res[k + 1] = 0

\* C25: for every byte c, all 8 bytes of Dupe(c) equal c.
DupeAllLanes ==
    op = "Dupe" => \A k \in LaneIdx : res[k] = c

\* The call Dupe(0xA7).
DupeAllLanesWitness ==
    /\ op = "Dupe"
    /\ c = 167
    /\ res = Rep(167)

\* ------------------------------------------------------------------------
\* The single-lane conversions
\* ------------------------------------------------------------------------

\* An 8-byte array in buf and a word in a.
InitInt ==
    /\ op = "none"
    /\ \E s \in {3, 255}, d \in {0, 5} :
         a = <<s, (s + d) % 256, (s + 2 * d) % 256, (s + 3 * d) % 256,
               (s + 4 * d) % 256, (s + 5 * d) % 256, (s + 6 * d) % 256,
               (s + 7 * d) % 256>>
    /\ b = Zero
    /\ mask = Zero
    /\ c = 0
    /\ res = Zero
    /\ NoExtra
    /\ \E s \in {0, 1, 100, 200, 250}, d \in {0, 1, 7, 37} : buf = BufOf(8, s, d)
    /\ after \in {0, 255}
    /\ endian \in ByteOrders
    /\ lanes = <<>>
    /\ consumed = 0
    /\ bytes = <<>>
    /\ panicked = FALSE

\* res := LanesToInt(buf), before or after lanes, _ := BytesToLanes(buf)
CallLanesToInt ==
    /\ op \in {"none", "BytesToLanes"}
    /\ ~panicked
    /\ op' = "LanesToInt"
    /\ res' = LanesToInt(buf, endian)
    /\ UNCHANGED wordVars
    /\ UNCHANGED extraVars
    /\ UNCHANGED codecVars

\* bytes := IntToLanes(a)
CallIntToLanes ==
    /\ op = "none"
    /\ op' = "IntToLanes"
    /\ bytes' = IntToLanes(a, endian)
    /\ UNCHANGED <<wordVars, res>>
    /\ UNCHANGED extraVars
    /\ UNCHANGED <<buf, after, endian, lanes, consumed, panicked>>

\* bytes := IntToLanes(res), with res = LanesToInt(buf)
CallIntToLanesOfLanesToInt ==
    /\ op = "LanesToInt"
    /\ op' = "IntToLanes(LanesToInt)"
    /\ bytes' = IntToLanes(res, endian)
    /\ UNCHANGED <<wordVars, res>>
    /\ UNCHANGED extraVars
    /\ UNCHANGED <<buf, after, endian, lanes, consumed, panicked>>

\* res := LanesToInt(bytes), with bytes = IntToLanes(a)
CallLanesToIntOfIntToLanes ==
    /\ op = "IntToLanes"
    /\ op' = "LanesToInt(IntToLanes)"
    /\ res' = LanesToInt(bytes, endian)
    /\ UNCHANGED wordVars
    /\ UNCHANGED extraVars
    /\ UNCHANGED codecVars

NextInt ==
    \/ CallBytesToLanes
    \/ CallLanesToInt
    \/ CallIntToLanes
    \/ CallIntToLanesOfLanesToInt
    \/ CallLanesToIntOfIntToLanes

SpecInt == InitInt /\ [][NextInt]_vars

\* C26: for an 8-byte array B, LanesToInt(B) is the one lane that BytesToLanes
\* returns for B and IntToLanes(LanesToInt(B)) = B; for a word x,
\* LanesToInt(IntToLanes(x)) = x.
IntLanesInverse ==
    /\ (op \in {"LanesToInt", "IntToLanes(LanesToInt)"} /\ lanes # <<>>) =>
           /\ Len(lanes) = 1
           /\ res = lanes[1]
    /\ op = "IntToLanes(LanesToInt)" => bytes = buf
    /\ op = "LanesToInt(IntToLanes)" => res = a

\* An array whose first and last bytes differ, packed by BytesToLanes, read by
\* LanesToInt as the same word and written back by IntToLanes as the same
\* array.
IntLanesInverseWitness ==
    /\ op = "IntToLanes(LanesToInt)"
    /\ buf[1] # buf[8]
    /\ Len(lanes) = 1
    /\ res = lanes[1]
    /\ bytes = buf

\* ------------------------------------------------------------------------
\* Counting the occurrences of a byte in a buffer
\* ------------------------------------------------------------------------

\* The pairs of a counted byte and a byte that is not counted.
CountPalettes == {<<32, 33>>, <<0, 128>>, <<255, 127>>, <<128, 0>>}

\* A buffer with the byte c at every arrangement of offsets, and the two
\* example texts with c = ' '.
InitCount ==
    /\ op = "none"
    /\ a = Zero
    /\ b = Zero
    /\ mask = Zero
    /\ res = Zero
    /\ NoExtra
    /\ \/ \E n \in 0..MaxBufLen, f \in SUBSET (0..7), pal \in CountPalettes :
              /\ buf = CapsBufOf(n, f, pal)
              /\ c = pal[1]
       \/ /\ buf \in {text, lotsOfBytes}
          /\ c = 32
    /\ after \in {0, 255}
    /\ endian \in ByteOrders
    /\ lanes = <<>>
    /\ consumed = 0
    /\ bytes = <<>>
    /\ panicked = FALSE

\* One pass of the benchmark body: chunks, unused := BytesToLanes(buf), the
\* loop over the chunks and the scalar loop over buf[unused:].
CallCountOccurrences ==
    /\ op = "none"
    /\ op' = "CountOccurrences"
    /\ \E r \in {CountOccurrences(buf, after, endian, c)} :
           /\ panicked' = r.panic
           /\ lanes' = r.chunks
           /\ consumed' = r.unused
           /\ res' = r.count
    /\ UNCHANGED <<buf, after, endian, bytes>>
    /\ UNCHANGED wordVars
    /\ UNCHANGED extraVars

NextCount == CallCountOccurrences

SpecCount == InitCount /\ [][NextCount]_vars

\* C27: for a non-empty buffer and a byte c, the set bits of
\* HighBitWhereEqual(lane, Dupe(c)) summed over the lanes, plus the bytes equal
\* to c in buf[consumed:], are as many as the bytes equal to c in buf: 1 for
\* "Hello, World!" and ' ', 10 for the benchmark text.
CountsEveryOccurrence ==
    (op = "CountOccurrences" /\ Len(buf) > 0) =>
        /\ ~panicked
        /\ res = Cardinality({n \in 1..Len(buf) : buf[n] = c})
        /\ (buf = text /\ c = 32) => res = 1
        /\ (buf = lotsOfBytes /\ c = 32) => res = 10

\* A pass over two chunks and a tail with the byte in each of them.
CountsEveryOccurrenceWitness ==
    /\ op = "CountOccurrences"
    /\ Len(lanes) = 2
    /\ Len(buf) = 17
    /\ buf[1] = c
    /\ buf[13] = c
    /\ buf[17] = c
    /\ res = Cardinality({n \in 1..17 : buf[n] = c})
    /\ res >= 3

\* ------------------------------------------------------------------------
\* The lanes as a view of the buffer
\* ------------------------------------------------------------------------

\* A buffer, a word to store into a lane and a byte to store into the buffer.
InitView ==
    /\ op = "none"
    /\ a \in {Lit(17, 34, 51, 68, 85, 102, 119, 136), Rep(238)}
    /\ b = Zero
    /\ mask = Zero
    /\ c \in {0, 170}
    /\ res = Zero
    /\ NoExtra
    /\ \E n \in 0..MaxBufLen, s \in {1, 200} : buf = BufOf(n, s, 7)
    /\ after \in {0, 255}
    /\ endian \in ByteOrders
    /\ lanes = <<>>
    /\ consumed = 0
    /\ bytes = <<>>
    /\ panicked = FALSE

\* lanes[k] = a, for an index k inside lanes
DoStoreLane ==
    /\ op = "BytesToLanes"
    /\ ~panicked
    /\ op' = "StoreLane"
    /\ \E k \in 0..(Len(lanes) - 1) :
         /\ storeIdx' = k
         /\ \E m \in {StoreLane(buf, endian, k, a)} :
              /\ buf' = m
              /\ lanes' = LanesView(m, after, endian, Len(lanes))
    /\ UNCHANGED <<after, endian, consumed, bytes, panicked>>
    /\ UNCHANGED <<wordVars, res>>
    /\ UNCHANGED <<pairVars, detectorVars, naiveVars>>

\* buf[j] = c, for an index j inside buf
DoStoreByte ==
    /\ op \in {"BytesToLanes", "StoreLane"}
    /\ ~panicked
    /\ op' = "StoreByte"
    /\ \E j \in 0..(Len(buf) - 1) :
         /\ storeIdx' = j
         /\ \E m \in {StoreByte(buf, j, c)} :
              /\ buf' = m
              /\ lanes' = LanesView(m, after, endian, Len(lanes))
    /\ UNCHANGED <<after, endian, consumed, bytes, panicked>>
    /\ UNCHANGED <<wordVars, res>>
    /\ UNCHANGED <<pairVars, detectorVars, naiveVars>>

\* res := lanes[storeIdx / 8], the lane over the byte stored last
DoReadLane ==
    /\ op = "StoreByte"
    /\ storeIdx < consumed
    /\ op' = "ReadLane"
    /\ res' = lanes[(storeIdx \div 8) + 1]
    /\ UNCHANGED wordVars
    /\ UNCHANGED extraVars
    /\ UNCHANGED codecVars

NextView ==
    \/ CallBytesToLanes
    \/ DoStoreLane
    \/ DoStoreByte
    \/ DoReadLane

SpecView == InitView /\ [][NextView]_vars

\* C28: the lanes are a view of the buffer's memory: a store of a word into
\* lanes[k] leaves the buffer's length, makes the codec read that word from
\* the bytes 8k..8k+7 and changes no other byte, the tail behind consumed
\* included; a byte stored into the buffer is seen in the lane read
\* afterwards, at its place in the codec's byte order.
LanesAreView ==
    [][/\ op' = "StoreLane" =>
            /\ Len(buf') = Len(buf)
            /\ Load64(buf', after, endian, 8 * storeIdx') = a
            /\ \A n \in 1..Len(buf) :
                   (n - 1) \div 8 # storeIdx' => buf'[n] = buf[n]
       /\ op' = "ReadLane" =>
            /\ res' = Load64(buf, after, endian, 8 * (storeIdx \div 8))
            /\ Store64(res', endian)[(storeIdx % 8) + 1] = c
      ]_vars

\* A buffer of two lanes and a tail after lanes[0] = a and buf[9] = c: the
\* first lane reads a, the second lane read afterwards holds c at its place,
\* and the tail still holds what it held.
LanesAreViewWitness ==
    /\ op = "ReadLane"
    /\ Len(lanes) = 2
    /\ Len(buf) = 17
    /\ lanes[1] = a
    /\ storeIdx = 9
    /\ buf[10] = c
    /\ res = lanes[2]
    /\ Store64(res, endian)[2] = c
    /\ buf[17] \in {(1 + 7 * 16) % 256, (200 + 7 * 16) % 256}

\* ------------------------------------------------------------------------
\* The anomaly detectors
\* ------------------------------------------------------------------------

\* Both detectors before their first iteration.
InitAnomalies ==
    /\ op = "none"
    /\ a = Zero
    /\ b = Zero
    /\ mask = Zero
    /\ c = 0
    /\ res = Zero
    /\ a2 = Zero
    /\ b2 = Zero
    /\ res2 = Zero
    /\ storeIdx = 0
    /\ swarI = 0
    /\ currentTemps = <<0, 0, 0, 0, 0, 0, 0, 0>>
    /\ averageTemps = Zero
    /\ anomalies = 0
    /\ naiveI = 0
    /\ naiveCurrent = <<0, 0, 0, 0, 0, 0, 0, 0>>
    /\ naiveAverage = <<0, 0, 0, 0, 0, 0, 0, 0>>
    /\ naiveAnomalies = 0
    /\ buf = <<>>
    /\ after = 0
    /\ endian \in ByteOrders
    /\ lanes = <<>>
    /\ consumed = 0
    /\ bytes = <<>>
    /\ panicked = FALSE

\* One iteration of the SWAR detector's loop; currentLane[0] is the memory of
\* currentTemps read as a word.
SwarStep ==
    /\ swarI < MaxSteps
    /\ op' = "SwarStep"
    /\ \E cur \in {BumpTemps(currentTemps, swarI)} :
         \E r \in {SwarDetect(Load64(cur, 0, endian, 0), averageTemps)} :
           /\ currentTemps' = cur
           /\ averageTemps' = r.average
           /\ anomalies' = anomalies + r.anomalies
    /\ swarI' = swarI + 1
    /\ UNCHANGED <<wordVars, res>>
    /\ UNCHANGED <<pairVars, storeIdx, naiveVars>>
    /\ UNCHANGED codecVars

\* One iteration of the byte-by-byte detector's loop.
NaiveStep ==
    /\ naiveI < MaxSteps
    /\ op' = "NaiveStep"
    /\ \E cur \in {BumpTemps(naiveCurrent, naiveI)} :
         \E r \in {NaiveDetect(cur, naiveAverage)} :
           /\ naiveCurrent' = cur
           /\ naiveAverage' = r.average
           /\ naiveAnomalies' = naiveAnomalies + r.anomalies
    /\ naiveI' = naiveI + 1
    /\ UNCHANGED <<wordVars, res>>
    /\ UNCHANGED <<pairVars, storeIdx, detectorVars>>
    /\ UNCHANGED codecVars

NextAnomalies ==
    \/ SwarStep
    \/ NaiveStep

SpecAnomalies == InitAnomalies /\ [][NextAnomalies]_vars

\* C29: after N >= 1 iterations the SWAR detector has counted floor(N / 81)
\* anomalies.
SwarCountsEveryEightyOne ==
    swarI >= 1 => anomalies = swarI \div 81

\* C30: after the same number of iterations on the same input the SWAR
\* detector and the byte-by-byte detector have counted the same number of
\* anomalies.
DetectorsAgree ==
    swarI = naiveI => anomalies = naiveAnomalies

\* Both detectors after the iteration i = 81, the first one that resets a
\* byte that had risen: each has counted one anomaly.
DetectorsAgreeWitness ==
    /\ swarI = 82
    /\ naiveI = 82
    /\ anomalies = 1
    /\ naiveAnomalies = 1

====
